---- MODULE Spec2Model ----
(***************************************************************************)
(* Model of virapy's lazy extension loader                                 *)
(* (source/virapy/packaging/__init__.py): the module initialisation, the   *)
(* cached _load_extension() with its sys.modules identity swap, and the    *)
(* _LazySubmodule proxies V1FF, V8FF, RGBFF.  Host threads use the proxies *)
(* and interleave between statements, as CPython threads do; the code      *)
(* takes no lock.                                                          *)
(***************************************************************************)
EXTENDS Integers, Sequences, FiniteSets, TLC

\* ---------------------------------------------------------------- bounds
NumThreads == 2     \* host threads that use the proxies
MaxUses == 3        \* proxy uses (__getattr__/__dir__ calls) in one run

Threads == 1..NumThreads

\* ------------------------------------------------------ program constants
Variants == {"V1FF", "V8FF", "RGBFF"}
ModuleName == "virapy"                     \* __name__
PackageDir == "<package dir>"              \* _package_dir
TempSuffix == "_temp"
None == 0                                  \* Python None, for module handles
Wrapper == -1                              \* the wrapper package's module object
Absent == None                             \* key not in sys.modules
PlatformSystems == {"Windows", "Linux"}
FileStates == {"absent", "good", "corrupt", "noloader"}

NoneObj == [ext |-> None, name |-> "None"]     \* None, for submodule objects
NoExc == [type |-> "none", msg |-> << >>]      \* no exception in flight
NoOutcome == [type |-> "none", msg |-> << >>, obj |-> NoneObj]

VARIABLES
    platform_system,      \* platform.system()
    has_add_dll,          \* hasattr(os, 'add_dll_directory')
    extFile,              \* what lies at the extension path on disk
    imported,             \* the wrapper's module body has run
    dll_search,           \* how the package dir was registered, if at all
    extension_module,     \* _extension_module
    sys_modules,          \* sys.modules, restricted to the two names used
    proxies,              \* the _LazySubmodule objects, by name
    currentActive,        \* the native arbiter's current-active slot
    pc,                   \* per thread: the statement it is about to run
    self,                 \* per thread: the proxy in use
    this_module,          \* per thread: local this_module
    ext_local,            \* per thread: local extension_module / extension
    pending,              \* per thread: what the finally block resumes
    outcome,              \* per thread: what the use gave its caller
    uses,                 \* uses begun so far
    nExec,                \* successful spec.loader.exec_module calls
    episodeReqs,          \* per proxy: _activate() calls in this episode
    callWrote             \* per thread: what its current call has written

vars == <<platform_system, has_add_dll, extFile, imported, dll_search,
          extension_module, sys_modules, proxies, currentActive, pc, self,
          this_module, ext_local, pending, outcome, uses, nExec,
          episodeReqs, callWrote>>

envVars == <<platform_system, has_add_dll>>
histVars == <<nExec, episodeReqs>>

\* ------------------------------------------------------------- helpers
TempName == ModuleName \o TempSuffix            \* __name__ + "_temp"
SysKeys == {ModuleName, TempName}

\* variant of l.37-40 without the Windows branch
ExtensionFile_AlwaysSo(system) == <<PackageDir, "virapy.so">>

\* os.path.join(_package_dir, "virapy.pyd" | "virapy.so")
ExtensionFile(system) ==
    IF system = "Windows" THEN <<PackageDir, "virapy.pyd">>
                          ELSE <<PackageDir, "virapy.so">>

\* raise ImportError(f"Extension file not found: {extension_file}")
NotFoundError(path) ==
    [type |-> "ImportError", msg |-> <<"Extension file not found: ">> \o path]

\* raise ImportError(f"Could not create spec for {extension_file}")
NoSpecError(path) ==
    [type |-> "ImportError", msg |-> <<"Could not create spec for ">> \o path]

\* what the dynamic loader raises when the binary cannot be loaded/executed
NativeLoadError ==
    [type |-> "ImportError", msg |-> <<"<native load failure>">>]

\* KeyError raised by sys.modules[k] or del sys.modules[k] on a missing key
KeyErrorOf(k) == [type |-> "KeyError", msg |-> <<k>>]

\* variant of l.75 that drops the cause from the message
WrapError_NoCause(e) ==
    [type |-> "ImportError", msg |-> <<"Failed to import virapy extension">>]

\* raise ImportError(f"Failed to import virapy extension: {e}")
WrapError(e) ==
    [type |-> "ImportError",
     msg |-> <<"Failed to import virapy extension: ">> \o e.msg]

\* what the native _activate() raises when another variant is active
ConflictError(requested, active) ==
    [type |-> "RuntimeError", msg |-> <<"activation conflict", requested, active>>]

\* the use returns getattr(self._submodule, attr) or dir(self._submodule)
Forwarded(how, obj) == [type |-> "ok", msg |-> <<how>>, obj |-> obj]

\* the use raises e to its caller
Raised(e) == [type |-> e.type, msg |-> e.msg, obj |-> NoneObj]

\* variant of __init__ that marks the proxy activated at construction
LazySubmoduleInit_Eager(name) ==
    [name |-> name, submodule |-> NoneObj, activated |-> TRUE]

\* _LazySubmodule.__init__
LazySubmoduleInit(name) ==
    [name |-> name, submodule |-> NoneObj, activated |-> FALSE]

\* getattr(extension, name)
GetSubmodule(extension, name) == [ext |-> extension, name |-> name]

\* statements of _load_extension (lines 32-75)
LoadPcs == {"l32", "l42", "l49", "l53", "l54", "l55", "l59", "l63",
            "l70", "l71", "l72", "l75"}
\* statements of _ensure_activated after the dormant check (lines 87-91)
ActivatingPcs == LoadPcs \cup {"l88", "l90", "l91"}

Inside(p) == {t \in Threads : self[t] = p /\ pc[t] \in ActivatingPcs}

\* episodeReqs once thread t has left the activation of proxy p
LeaveEpisode(t, p, reqs) ==
    IF Inside(p) \ {t} = {} THEN [reqs EXCEPT ![p] = 0] ELSE reqs

\* ------------------------------------------------------------------ Init
Init ==
    /\ platform_system \in PlatformSystems
    /\ has_add_dll \in (IF platform_system = "Windows" THEN BOOLEAN ELSE {FALSE})
    /\ extFile \in {"good", "absent"}
    /\ imported = FALSE
    /\ dll_search = "none"
    /\ extension_module = None
    /\ sys_modules = [k \in SysKeys |-> IF k = ModuleName THEN Wrapper ELSE Absent]
    /\ proxies = [n \in {} |-> LazySubmoduleInit(n)]
    /\ currentActive = "None"
    /\ pc = [t \in Threads |-> "idle"]
    /\ self = [t \in Threads |-> "None"]
    /\ this_module = [t \in Threads |-> Absent]
    /\ ext_local = [t \in Threads |-> None]
    /\ pending = [t \in Threads |-> NoExc]
    /\ outcome = [t \in Threads |-> NoOutcome]
    /\ uses = 0
    /\ nExec = 0
    /\ episodeReqs = [n \in Variants |-> 0]
    /\ callWrote = [t \in Threads |-> {}]

\* ------------------------------------------------- module body (l.15-104)
ModuleInit ==
    /\ ~imported
    /\ imported' = TRUE
    /\ dll_search' = IF platform_system = "Windows"
                     THEN (IF has_add_dll THEN "add_dll_directory" ELSE "PATH")
                     ELSE "none"
    /\ extension_module' = None
    /\ proxies' = [n \in Variants |-> LazySubmoduleInit(n)]
    /\ UNCHANGED <<envVars, extFile, sys_modules, currentActive, pc, self,
                   this_module, ext_local, pending, outcome, uses, histVars,
                   callWrote>>

\* the environment: the file at the extension path is removed, restored,
\* or replaced by something the loader cannot use
SetFile ==
    /\ \E s \in FileStates \ {extFile} : extFile' = s
    /\ UNCHANGED <<envVars, imported, dll_search, extension_module,
                   sys_modules, proxies, currentActive, pc, self, this_module,
                   ext_local, pending, outcome, uses, histVars, callWrote>>

\* ------------------------------------------- _LazySubmodule (l.84-99)
\* a host thread touches a proxy: __getattr__ (l.93) or __dir__ (l.97)
Use(t) ==
    /\ imported /\ pc[t] = "idle" /\ uses < MaxUses
    /\ \E p \in Variants : self' = [self EXCEPT ![t] = p]
    /\ pc' = [pc EXCEPT ![t] = "l86"]
    /\ uses' = uses + 1
    /\ UNCHANGED <<envVars, extFile, imported, dll_search, extension_module,
                   sys_modules, proxies, currentActive, this_module, ext_local,
                   pending, outcome, histVars, callWrote>>

\* variant of l.86 that activates on every use, whatever _activated says
CheckActivated_Always(t) ==
    /\ pc[t] = "l86"
    /\ pc' = [pc EXCEPT ![t] = "l32"]
    /\ UNCHANGED <<envVars, extFile, imported, dll_search, extension_module,
                   sys_modules, proxies, currentActive, self, this_module,
                   ext_local, pending, outcome, uses, histVars, callWrote>>

\* l.86: if not self._activated; l.87 calls _load_extension()
CheckActivated(t) ==
    /\ pc[t] = "l86"
    /\ pc' = [pc EXCEPT ![t] = IF proxies[self[t]].activated THEN "l95" ELSE "l32"]
    /\ UNCHANGED <<envVars, extFile, imported, dll_search, extension_module,
                   sys_modules, proxies, currentActive, self, this_module,
                   ext_local, pending, outcome, uses, histVars, callWrote>>

\* variant of l.88 that keeps the submodule in a local and never stores it
SetSubmodule_NotStored(t) ==
    /\ pc[t] = "l88"
    /\ pc' = [pc EXCEPT ![t] = "l90"]
    /\ UNCHANGED <<envVars, extFile, imported, dll_search, extension_module,
                   sys_modules, proxies, currentActive, self, this_module,
                   ext_local, pending, outcome, uses, histVars, callWrote>>

\* variant of l.88-91 that sets _activated before _activate() is called
SetSubmodule_MarksActivated(t) ==
    /\ pc[t] = "l88"
    /\ proxies' = [proxies EXCEPT
                       ![self[t]].submodule =
                           [ext |-> ext_local[t], name |-> proxies[self[t]].name],
                       ![self[t]].activated = TRUE]
    /\ pc' = [pc EXCEPT ![t] = "l90"]
    /\ UNCHANGED <<envVars, extFile, imported, dll_search, extension_module,
                   sys_modules, currentActive, self, this_module, ext_local,
                   pending, outcome, uses, histVars, callWrote>>

\* l.88: self._submodule = getattr(extension, self.name)
SetSubmodule(t) ==
    /\ pc[t] = "l88"
    /\ proxies' = [proxies EXCEPT ![self[t]].submodule =
                       GetSubmodule(ext_local[t], proxies[self[t]].name)]
    /\ pc' = [pc EXCEPT ![t] = "l90"]
    /\ UNCHANGED <<envVars, extFile, imported, dll_search, extension_module,
                   sys_modules, currentActive, self, this_module, ext_local,
                   pending, outcome, uses, histVars, callWrote>>

\* the native arbiter: accept when no other variant is active
ArbiterAccepts(name) == currentActive \in {"None", name}

\* variant of l.90 that swallows the arbiter's rejection and goes on to l.91
Activate_Swallowed(t) ==
    /\ pc[t] = "l90"
    /\ currentActive' = IF ArbiterAccepts(proxies[self[t]].submodule.name)
                        THEN proxies[self[t]].submodule.name ELSE currentActive
    /\ pc' = [pc EXCEPT ![t] = "l91"]
    /\ episodeReqs' = [episodeReqs EXCEPT ![self[t]] = @ + 1]
    /\ UNCHANGED <<envVars, extFile, imported, dll_search, extension_module,
                   sys_modules, proxies, self, this_module, ext_local, pending,
                   outcome, uses, nExec, callWrote>>

\* l.90: self._submodule._activate()
Activate(t) ==
    /\ pc[t] = "l90"
    /\ LET p == self[t]
           name == proxies[p].submodule.name
           reqs == [episodeReqs EXCEPT ![p] = @ + 1]
       IN IF ArbiterAccepts(name)
          THEN /\ currentActive' = name
               /\ pc' = [pc EXCEPT ![t] = "l91"]
               /\ episodeReqs' = reqs
               /\ UNCHANGED outcome
          ELSE /\ pc' = [pc EXCEPT ![t] = "done"]
               /\ outcome' = [outcome EXCEPT ![t] =
                                  Raised(ConflictError(name, currentActive))]
               /\ episodeReqs' = LeaveEpisode(t, p, reqs)
               /\ UNCHANGED currentActive
    /\ UNCHANGED <<envVars, extFile, imported, dll_search, extension_module,
                   sys_modules, proxies, self, this_module, ext_local, pending,
                   uses, nExec, callWrote>>

\* l.91: self._activated = True
SetActivated(t) ==
    /\ pc[t] = "l91"
    /\ proxies' = [proxies EXCEPT ![self[t]].activated = TRUE]
    /\ pc' = [pc EXCEPT ![t] = "l95"]
    /\ episodeReqs' = LeaveEpisode(t, self[t], episodeReqs)
    /\ UNCHANGED <<envVars, extFile, imported, dll_search, extension_module,
                   sys_modules, currentActive, self, this_module, ext_local,
                   pending, outcome, uses, nExec, callWrote>>

\* l.95 / l.99: return getattr(self._submodule, attr) / dir(self._submodule)
Forward(t) ==
    /\ pc[t] = "l95"
    /\ \E how \in {"getattr", "dir"} :
          outcome' = [outcome EXCEPT ![t] =
                         Forwarded(how, proxies[self[t]].submodule)]
    /\ pc' = [pc EXCEPT ![t] = "done"]
    /\ UNCHANGED <<envVars, extFile, imported, dll_search, extension_module,
                   sys_modules, proxies, currentActive, self, this_module,
                   ext_local, pending, uses, histVars, callWrote>>

\* the use is over: the caller has its value or its exception
Finish(t) ==
    /\ pc[t] = "done"
    /\ pc' = [pc EXCEPT ![t] = "idle"]
    /\ self' = [self EXCEPT ![t] = "None"]
    /\ this_module' = [this_module EXCEPT ![t] = Absent]
    /\ ext_local' = [ext_local EXCEPT ![t] = None]
    /\ pending' = [pending EXCEPT ![t] = NoExc]
    /\ outcome' = [outcome EXCEPT ![t] = NoOutcome]
    /\ callWrote' = [callWrote EXCEPT ![t] = {}]
    /\ UNCHANGED <<envVars, extFile, imported, dll_search, extension_module,
                   sys_modules, proxies, currentActive, uses, histVars>>

\* ------------------------------------------- _load_extension (l.28-75)
Returning == [type |-> "return", msg |-> << >>]    \* l.64 reached: a return is in flight

\* where the finally block (l.68-72) hands control once it is through
AfterFinally(t) == IF pending[t].type = "return" THEN "l88" ELSE "l75"

\* l.32-33: if _extension_module is not None: return _extension_module
CheckCache(t) ==
    /\ pc[t] = "l32"
    /\ IF extension_module # None
       THEN /\ ext_local' = [ext_local EXCEPT ![t] = extension_module]
            /\ pc' = [pc EXCEPT ![t] = "l88"]
       ELSE /\ pc' = [pc EXCEPT ![t] = "l42"]
            /\ UNCHANGED ext_local
    /\ UNCHANGED <<envVars, extFile, imported, dll_search, extension_module,
                   sys_modules, proxies, currentActive, self, this_module,
                   pending, outcome, uses, histVars, callWrote>>

\* l.37-43: resolve the file name, raise ImportError if the file is absent
CheckFile(t) ==
    /\ pc[t] = "l42"
    /\ IF extFile = "absent"
       THEN /\ pending' = [pending EXCEPT ![t] =
                              NotFoundError(ExtensionFile(platform_system))]
            /\ pc' = [pc EXCEPT ![t] = "l75"]
       ELSE /\ pc' = [pc EXCEPT ![t] = "l49"]
            /\ UNCHANGED pending
    /\ UNCHANGED <<envVars, extFile, imported, dll_search, extension_module,
                   sys_modules, proxies, currentActive, self, this_module,
                   ext_local, outcome, uses, histVars, callWrote>>

\* l.49: this_module = sys.modules[__name__]
ReadThisModule(t) ==
    /\ pc[t] = "l49"
    /\ IF sys_modules[ModuleName] # Absent
       THEN /\ this_module' = [this_module EXCEPT ![t] = sys_modules[ModuleName]]
            /\ pc' = [pc EXCEPT ![t] = "l53"]
            /\ UNCHANGED pending
       ELSE /\ pending' = [pending EXCEPT ![t] = KeyErrorOf(ModuleName)]
            /\ pc' = [pc EXCEPT ![t] = "l75"]
            /\ UNCHANGED this_module
    /\ UNCHANGED <<envVars, extFile, imported, dll_search, extension_module,
                   sys_modules, proxies, currentActive, self, ext_local,
                   outcome, uses, histVars, callWrote>>

\* l.52-53: sys.modules[temp_name] = this_module
SetTemp(t) ==
    /\ pc[t] = "l53"
    /\ sys_modules' = [sys_modules EXCEPT ![TempName] = this_module[t]]
    /\ callWrote' = [callWrote EXCEPT ![t] = @ \cup {"sys.modules"}]
    /\ pc' = [pc EXCEPT ![t] = "l54"]
    /\ UNCHANGED <<envVars, extFile, imported, dll_search, extension_module,
                   proxies, currentActive, self, this_module, ext_local,
                   pending, outcome, uses, histVars>>

\* l.54: if __name__ in sys.modules
TestName(t) ==
    /\ pc[t] = "l54"
    /\ pc' = [pc EXCEPT ![t] =
                 IF sys_modules[ModuleName] # Absent THEN "l55" ELSE "l59"]
    /\ UNCHANGED <<envVars, extFile, imported, dll_search, extension_module,
                   sys_modules, proxies, currentActive, self, this_module,
                   ext_local, pending, outcome, uses, histVars, callWrote>>

\* l.55: del sys.modules[__name__]   (not yet inside the inner try)
DelName(t) ==
    /\ pc[t] = "l55"
    /\ IF sys_modules[ModuleName] # Absent
       THEN /\ sys_modules' = [sys_modules EXCEPT ![ModuleName] = Absent]
            /\ callWrote' = [callWrote EXCEPT ![t] = @ \cup {"sys.modules"}]
            /\ pc' = [pc EXCEPT ![t] = "l59"]
            /\ UNCHANGED pending
       ELSE /\ pending' = [pending EXCEPT ![t] = KeyErrorOf(ModuleName)]
            /\ pc' = [pc EXCEPT ![t] = "l75"]
            /\ UNCHANGED <<sys_modules, callWrote>>
    /\ UNCHANGED <<envVars, extFile, imported, dll_search, extension_module,
                   proxies, currentActive, self, this_module, ext_local,
                   outcome, uses, histVars>>

\* the interpreter binds a freshly initialised extension module under __name__
NativeBind(sm, module) == [sm EXCEPT ![ModuleName] = module]

\* variant of l.61-63 that caches the module object before exec_module runs,
\* so that a failed exec leaves it cached
ExecModule_CachesFirst(t) ==
    /\ pc[t] = "l59"
    /\ IF extFile = "noloader"
       THEN /\ pending' = [pending EXCEPT ![t] =
                              NoSpecError(ExtensionFile(platform_system))]
            /\ pc' = [pc EXCEPT ![t] = "l70"]
            /\ UNCHANGED <<nExec, ext_local, extension_module>>
       ELSE /\ nExec' = nExec + 1
            /\ ext_local' = [ext_local EXCEPT ![t] = nExec + 1]
            /\ extension_module' = nExec + 1
            /\ IF extFile = "good"
               THEN pc' = [pc EXCEPT ![t] = "l63"] /\ UNCHANGED pending
               ELSE /\ pending' = [pending EXCEPT ![t] = NativeLoadError]
                    /\ pc' = [pc EXCEPT ![t] = "l70"]
    /\ UNCHANGED <<envVars, extFile, imported, dll_search, sys_modules,
                   proxies, currentActive, self, this_module, outcome, uses,
                   episodeReqs, callWrote>>

\* l.59-62, 66: spec_from_file_location, module_from_spec, exec_module.
\* The native init runs under the name __name__; whether the interpreter
\* binds the new module object in sys.modules under that name depends on the
\* CPython version and the extension's init style, so both happen.
ExecModule(t) ==
    /\ pc[t] = "l59"
    /\ CASE extFile = "good" ->
              /\ nExec' = nExec + 1
              /\ ext_local' = [ext_local EXCEPT ![t] = nExec + 1]
              /\ \E binds \in BOOLEAN :
                    sys_modules' = IF binds
                                   THEN NativeBind(sys_modules, nExec + 1)
                                   ELSE sys_modules
              /\ pc' = [pc EXCEPT ![t] = "l63"]
              /\ UNCHANGED pending
         [] extFile = "noloader" ->
              /\ pending' = [pending EXCEPT ![t] =
                                NoSpecError(ExtensionFile(platform_system))]
              /\ pc' = [pc EXCEPT ![t] = "l70"]
              /\ UNCHANGED <<nExec, ext_local, sys_modules>>
         [] OTHER ->
              /\ pending' = [pending EXCEPT ![t] = NativeLoadError]
              /\ pc' = [pc EXCEPT ![t] = "l70"]
              /\ UNCHANGED <<nExec, ext_local, sys_modules>>
    /\ UNCHANGED <<envVars, extFile, imported, dll_search, extension_module,
                   proxies, currentActive, self, this_module, outcome, uses,
                   episodeReqs, callWrote>>

\* l.63-64: _extension_module = extension_module; return extension_module
SetCache(t) ==
    /\ pc[t] = "l63"
    /\ extension_module' = ext_local[t]
    /\ callWrote' = [callWrote EXCEPT ![t] = @ \cup {"cache"}]
    /\ pending' = [pending EXCEPT ![t] = Returning]
    /\ pc' = [pc EXCEPT ![t] = "l70"]
    /\ UNCHANGED <<envVars, extFile, imported, dll_search, sys_modules,
                   proxies, currentActive, self, this_module, ext_local,
                   outcome, uses, histVars>>

\* l.70 (finally): sys.modules[__name__] = this_module
RestoreName(t) ==
    /\ pc[t] = "l70"
    /\ sys_modules' = [sys_modules EXCEPT ![ModuleName] = this_module[t]]
    /\ callWrote' = [callWrote EXCEPT ![t] = @ \cup {"sys.modules"}]
    /\ pc' = [pc EXCEPT ![t] = "l71"]
    /\ UNCHANGED <<envVars, extFile, imported, dll_search, extension_module,
                   proxies, currentActive, self, this_module, ext_local,
                   pending, outcome, uses, histVars>>

\* l.71 (finally): if temp_name in sys.modules
TestTemp(t) ==
    /\ pc[t] = "l71"
    /\ pc' = [pc EXCEPT ![t] =
                 IF sys_modules[TempName] # Absent THEN "l72" ELSE AfterFinally(t)]
    /\ UNCHANGED <<envVars, extFile, imported, dll_search, extension_module,
                   sys_modules, proxies, currentActive, self, this_module,
                   ext_local, pending, outcome, uses, histVars, callWrote>>

\* l.72 (finally): del sys.modules[temp_name]
DelTemp(t) ==
    /\ pc[t] = "l72"
    /\ IF sys_modules[TempName] # Absent
       THEN /\ sys_modules' = [sys_modules EXCEPT ![TempName] = Absent]
            /\ callWrote' = [callWrote EXCEPT ![t] = @ \cup {"sys.modules"}]
            /\ pc' = [pc EXCEPT ![t] = AfterFinally(t)]
            /\ UNCHANGED pending
       ELSE /\ pending' = [pending EXCEPT ![t] = KeyErrorOf(TempName)]
            /\ pc' = [pc EXCEPT ![t] = "l75"]
            /\ UNCHANGED <<sys_modules, callWrote>>
    /\ UNCHANGED <<envVars, extFile, imported, dll_search, extension_module,
                   proxies, currentActive, self, this_module, ext_local,
                   outcome, uses, histVars>>

\* variant of l.74-75 that re-raises the caught exception as it is
Reraise_Bare(t) ==
    /\ pc[t] = "l75"
    /\ outcome' = [outcome EXCEPT ![t] = Raised(pending[t])]
    /\ episodeReqs' = LeaveEpisode(t, self[t], episodeReqs)
    /\ pc' = [pc EXCEPT ![t] = "done"]
    /\ UNCHANGED <<envVars, extFile, imported, dll_search, extension_module,
                   sys_modules, proxies, currentActive, self, this_module,
                   ext_local, pending, uses, nExec, callWrote>>

\* variant in which _ensure_activated sets _activated in a finally clause,
\* so that a failed load leaves the proxy marked activated
Reraise_MarksActivated(t) ==
    /\ pc[t] = "l75"
    /\ outcome' = [outcome EXCEPT ![t] = Raised(WrapError(pending[t]))]
    /\ proxies' = [proxies EXCEPT ![self[t]].activated = TRUE]
    /\ episodeReqs' = LeaveEpisode(t, self[t], episodeReqs)
    /\ pc' = [pc EXCEPT ![t] = "done"]
    /\ UNCHANGED <<envVars, extFile, imported, dll_search, extension_module,
                   sys_modules, currentActive, self, this_module,
                   ext_local, pending, uses, nExec, callWrote>>

\* l.74-75: except Exception as e: raise ImportError(...); nothing in
\* _ensure_activated or __getattr__/__dir__ catches it
Reraise(t) ==
    /\ pc[t] = "l75"
    /\ outcome' = [outcome EXCEPT ![t] = Raised(WrapError(pending[t]))]
    /\ episodeReqs' = LeaveEpisode(t, self[t], episodeReqs)
    /\ pc' = [pc EXCEPT ![t] = "done"]
    /\ UNCHANGED <<envVars, extFile, imported, dll_search, extension_module,
                   sys_modules, proxies, currentActive, self, this_module,
                   ext_local, pending, uses, nExec, callWrote>>

\* ------------------------------------------------------------ behaviours
\* the statements of a use once it has begun
Body(t) ==
    \/ CheckActivated(t) \/ SetSubmodule(t) \/ Activate(t)
    \/ SetActivated(t) \/ Forward(t) \/ Finish(t)
    \/ CheckCache(t) \/ CheckFile(t) \/ ReadThisModule(t) \/ SetTemp(t)
    \/ TestName(t) \/ DelName(t) \/ ExecModule(t) \/ SetCache(t)
    \/ RestoreName(t) \/ TestTemp(t) \/ DelTemp(t) \/ Reraise(t)

Step(t) == Use(t) \/ Body(t)

\* threads interleave freely between statements
Next == ModuleInit \/ SetFile \/ \E t \in Threads : Step(t)

Spec == Init /\ [][Next]_vars

\* sequential execution: one use at a time, and the file at the extension
\* path changes only between uses
Quiet(t) == \A u \in Threads \ {t} : pc[u] \in {"idle", "done"}
SeqUse(t) == Quiet(t) /\ Use(t)
SeqSetFile == (\A t \in Threads : pc[t] = "idle") /\ SetFile
NextSeq == ModuleInit \/ SeqSetFile \/ \E t \in Threads : SeqUse(t) \/ Body(t)
SpecSeq == Init /\ [][NextSeq]_vars

\* the extension file is present and loadable from start to end
InitPresent == Init /\ extFile = "good"
NextPresent == ModuleInit \/ \E t \in Threads : Step(t)
SpecPresent == InitPresent /\ [][NextPresent]_vars

\* ---------------------------------------------------------------- claims
Active == {n \in DOMAIN proxies : proxies[n].activated}
LoadExits(t) == pc[t] \in LoadPcs /\ pc'[t] \notin LoadPcs
IdentityRestored(sm) == sm[ModuleName] = Wrapper /\ sm[TempName] = Absent
EndsWith(msg, tail) ==
    /\ Len(msg) >= Len(tail)
    /\ SubSeq(msg, Len(msg) - Len(tail) + 1, Len(msg)) = tail
IsConflict(o) == o.type = "RuntimeError" /\ o.msg[1] = "activation conflict"
IsNotFound(e) ==
    e.type = "ImportError" /\ Len(e.msg) >= 1 /\ e.msg[1] = "Extension file not found: "

\* C1: however many _load_extension() calls run, in sequence or concurrently,
\* there is at most one successful exec_module and every caller holds the
\* same handle.
C1_SingleLoad ==
    /\ nExec <= 1
    /\ \A t, u \in Threads :
          (ext_local[t] # None /\ ext_local[u] # None) => ext_local[t] = ext_local[u]

\* C2: in every reachable state at most one of the proxies V1FF, V8FF, RGBFF
\* has _activated = True.
C2_AtMostOneActive == Cardinality(Active) <= 1

C2_Witness ==
    \E t \in Threads :
        /\ pc[t] = "done" /\ IsConflict(outcome[t])
        /\ Active # {} /\ self[t] \notin Active

\* C3: whenever a _load_extension() call returns or raises, sys.modules binds
\* __name__ to the wrapper and holds no __name__ + "_temp" entry.
C3_IdentityRestoredAtExit ==
    [][\A t \in Threads : LoadExits(t) => IdentityRestored(sys_modules')]_vars

\* C4: with the file present, when two threads make the first two uses
\* concurrently, one of V1FF and one of V8FF, exactly one of the two proxies
\* is Active and the other thread got the activation conflict.
C4_RaceOutcome ==
    \A t, u \in Threads :
        (/\ uses = 2 /\ pc[t] = "done" /\ pc[u] = "done"
         /\ self[t] = "V1FF" /\ self[u] = "V8FF")
        => \/ /\ Active = {"V1FF"} /\ outcome[t].type = "ok"
              /\ IsConflict(outcome[u])
           \/ /\ Active = {"V8FF"} /\ outcome[u].type = "ok"
              /\ IsConflict(outcome[t])

\* C5: when the arbiter rejects a proxy's request because another variant is
\* active, the caller gets the conflict error, no other proxy's fields and
\* not the arbiter's slot change, and the rejected proxy is left with
\* _activated = False; a use of a proxy with _activated = False goes on to
\* load and request activation again.
C5_ConflictPreservesState ==
    [][\A t \in Threads :
         /\ (pc[t] = "l90" /\ pc'[t] = "done") =>
              /\ currentActive \in Variants \ {self[t]}
              /\ IsConflict(outcome'[t])
              /\ outcome'[t].msg = <<"activation conflict", self[t], currentActive>>
              /\ currentActive' = currentActive
              /\ \A n \in Variants \ {self[t]} : proxies'[n] = proxies[n]
              /\ ~proxies'[self[t]].activated
         /\ (pc[t] = "l86" /\ pc'[t] # "l86" /\ ~proxies[self[t]].activated) =>
              pc'[t] = "l32"]_vars

\* A is Active, B's use was rejected, and a further use of B is about to
\* call _activate() again
C5_Witness ==
    \E t, u \in Threads : \E a \in Variants :
        /\ pc[t] = "done" /\ IsConflict(outcome[t])
        /\ a # self[t] /\ proxies[a].activated /\ proxies[a].submodule.name = a
        /\ ~proxies[self[t]].activated
        /\ proxies[self[t]].submodule # NoneObj
        /\ u # t /\ self[u] = self[t] /\ pc[u] = "l90" /\ uses = 3

\* C6: a call that found the extension file absent raises an ImportError whose
\* message ends with the resolved path, and has written neither the cache nor
\* sys.modules, and no handle is cached unless a native load has succeeded.
C6_MissingFile ==
    \A t \in Threads :
        (pc[t] \in {"l75", "done"} /\ IsNotFound(pending[t]))
        => /\ callWrote[t] = {}
           /\ nExec = 0 => extension_module = None
           /\ pc[t] = "done" =>
                /\ outcome[t].type = "ImportError"
                /\ EndsWith(outcome[t].msg,
                            IF platform_system = "Windows"
                            THEN <<PackageDir, "virapy.pyd">>
                            ELSE <<PackageDir, "virapy.so">>)

C6_Witness ==
    \E t \in Threads :
        /\ pc[t] = "done" /\ outcome[t].type = "ImportError"
        /\ IsNotFound(pending[t])
        /\ extension_module = None

\* C7: once the wrapper is imported and until the first use of a proxy, no
\* handle is cached, no proxy is activated or holds a submodule, nothing was
\* loaded and the arbiter has had no request.
C7_LazyUntilFirstUse ==
    (imported /\ uses = 0) =>
        /\ extension_module = None
        /\ nExec = 0
        /\ currentActive = "None"
        /\ \A n \in Variants :
              /\ n \in DOMAIN proxies
              /\ ~proxies[n].activated
              /\ proxies[n].submodule = NoneObj
              /\ episodeReqs[n] = 0

C7_Witness == imported /\ uses = 0 /\ DOMAIN proxies = Variants

\* C8: in sequential execution a failed load leaves no handle cached, the
\* proxy as constructed and sys.modules as it was, and happens only while the
\* file is not loadable; whatever failed before, a use
\* made while the file is good ends with the handle cached, loaded once, and
\* the proxy activated unless another variant holds the arbiter.
C8_FailureNotCached ==
    \A t \in Threads :
        pc[t] = "done" =>
            /\ outcome[t].type = "ImportError" =>
                  /\ extension_module = None /\ nExec = 0 /\ extFile # "good"
                  /\ "cache" \notin callWrote[t]
                  /\ proxies[self[t]] = LazySubmoduleInit(self[t])
                  /\ Quiet(t) => IdentityRestored(sys_modules)
            /\ extFile = "good" =>
                  /\ extension_module = nExec /\ nExec = 1
                  /\ \/ /\ outcome[t].type = "ok"
                        /\ proxies[self[t]].activated
                        /\ outcome[t].obj = GetSubmodule(extension_module, self[t])
                     \/ /\ IsConflict(outcome[t])
                        /\ currentActive \in Variants \ {self[t]}

\* a use that loads and activates after an earlier use had failed
C8_Witness ==
    \E t \in Threads :
        /\ pc[t] = "done" /\ outcome[t].type = "ok" /\ uses >= 2
        /\ "cache" \in callWrote[t] /\ extension_module = 1
        /\ proxies[self[t]].activated

\* C9: a missing file reaches the caller as the not-found error itself, not
\* converted into the error kind a failed native load gives.
C9_NotFoundPropagated ==
    \A t \in Threads :
        (pc[t] = "done" /\ IsNotFound(pending[t]))
        => /\ outcome[t] = Raised(pending[t])
           /\ outcome[t].msg[1] # Raised(WrapError(NativeLoadError)).msg[1]

\* C10: while threads overlap in the first use of one proxy, that proxy calls
\* _activate() at most once.
C10_OneRequestPerEpisode == \A n \in Variants : episodeReqs[n] <= 1

\* C11: a proxy with _activated = True keeps it, and keeps its _submodule
\* while no thread is inside its activation; a use that finds _activated True
\* goes from l.86 straight to the forward, which returns from that _submodule
\* and changes neither the cache, the arbiter, the proxies nor the load and
\* request counts.
C11_ActiveIsTerminal ==
    [][/\ \A n \in DOMAIN proxies :
            proxies[n].activated =>
                /\ proxies'[n].activated
                /\ Inside(n) = {} => proxies'[n].submodule = proxies[n].submodule
       /\ \A t \in Threads :
            /\ (pc[t] = "l86" /\ pc'[t] # "l86" /\ proxies[self[t]].activated)
                  => pc'[t] = "l95"
            /\ (pc[t] = "l95" /\ pc'[t] # "l95") =>
                  /\ pc'[t] = "done"
                  /\ outcome'[t].type = "ok"
                  /\ outcome'[t].obj = proxies[self[t]].submodule
                  /\ UNCHANGED <<extension_module, sys_modules, proxies,
                                 currentActive, nExec, episodeReqs>>]_vars

\* a use of an already Active proxy has returned without loading
C11_Witness ==
    \E t \in Threads :
        /\ pc[t] = "done" /\ outcome[t].type = "ok" /\ uses >= 2
        /\ ext_local[t] = None /\ pending[t] = NoExc
        /\ proxies[self[t]].activated
        /\ outcome[t].obj = proxies[self[t]].submodule

\* C12: a thread is at the forward of a proxy, or has a forwarded value from
\* it, only when that proxy is activated, the arbiter's slot holds that
\* variant, and what is forwarded to is a submodule object of a loaded
\* extension bearing the proxy's name.
C12_ForwardOnlyWhenActive ==
    \A t \in Threads :
        (pc[t] = "l95" \/ (pc[t] = "done" /\ outcome[t].type = "ok")) =>
            /\ proxies[self[t]].activated
            /\ currentActive = self[t]
            /\ proxies[self[t]].submodule.name = self[t]
            /\ proxies[self[t]].submodule.ext \in 1..nExec
            /\ pc[t] = "done" =>
                  (outcome[t].obj.name = self[t] /\ outcome[t].obj.ext \in 1..nExec)

\* the first use of a proxy has been forwarded right after its activation
C12_Witness ==
    \E t \in Threads :
        /\ pc[t] = "done" /\ outcome[t].type = "ok"
        /\ ext_local[t] # None
        /\ currentActive = self[t]
        /\ outcome[t].obj = proxies[self[t]].submodule

\* C13: no statement of _load_extension run for a proxy's use changes any
\* proxy field or the arbiter's slot or issues an activation request; when
\* the call fails, the use ends there with the ImportError of l.75 as raised,
\* and if no load has ever succeeded the proxy is as constructed.
C13_LoadFailureLeavesDormant ==
    [][\A t \in Threads :
         /\ (pc[t] \in LoadPcs /\ pc'[t] # pc[t]) =>
               /\ proxies' = proxies
               /\ currentActive' = currentActive
               /\ episodeReqs'[self[t]] <= episodeReqs[self[t]]
         /\ (pc[t] = "l75" /\ pc'[t] # "l75") =>
               /\ pc'[t] = "done"
               /\ outcome'[t] = Raised(WrapError(pending[t]))
               /\ nExec = 0 =>
                     /\ proxies'[self[t]] = LazySubmoduleInit(self[t])
                     /\ currentActive' = "None"]_vars

\* a first use has failed in the load and left the proxy Dormant
C13_Witness ==
    \E t \in Threads :
        /\ pc[t] = "done" /\ outcome[t].type = "ImportError"
        /\ pending[t].type \in {"ImportError", "KeyError"}
        /\ ~proxies[self[t]].activated
        /\ proxies[self[t]].submodule = NoneObj
        /\ episodeReqs[self[t]] = 0 /\ currentActive = "None"

\* C14 as claimed: in every reachable state a proxy whose _submodule is not
\* None has _activated = True.
C14_SubmoduleOnlyWhenActive ==
    \A n \in DOMAIN proxies :
        proxies[n].submodule # NoneObj => proxies[n].activated

\* C14 as amended: an activated proxy holds its submodule object; a proxy
\* that holds one without being activated has an activation request in
\* flight (l.90-91) or was rejected because another variant holds the arbiter.
C14_SubmoduleSetFromRequest ==
    \A n \in DOMAIN proxies :
        /\ proxies[n].activated =>
              (proxies[n].submodule # NoneObj /\ proxies[n].submodule.name = n)
        /\ (proxies[n].submodule # NoneObj /\ ~proxies[n].activated) =>
              \/ \E t \in Threads : self[t] = n /\ pc[t] \in {"l90", "l91"}
              \/ currentActive \in Variants \ {n}

\* a rejected proxy keeps the submodule object it asked to activate
C14_Witness ==
    \E n \in DOMAIN proxies :
        /\ proxies[n].submodule # NoneObj /\ ~proxies[n].activated
        /\ \A t \in Threads : pc[t] \in {"idle", "done"}
        /\ currentActive \in Variants \ {n}
        /\ proxies[currentActive].activated

\* C15: once _extension_module is not None no step changes it, and a call
\* that finds it not None at l.32 returns it at once, leaving sys.modules
\* alone.
C15_HandleImmutable ==
    [][/\ extension_module # None => extension_module' = extension_module
       /\ \A t \in Threads :
            (pc[t] = "l32" /\ pc'[t] # "l32" /\ extension_module # None) =>
                /\ pc'[t] = "l88"
                /\ ext_local'[t] = extension_module
                /\ sys_modules' = sys_modules]_vars

\* C16: the package directory is registered for the native search path only
\* on Windows and only in the step that runs the module body, which happens
\* once and before any use, hence before any load attempt; the file a load
\* attempt names is <package dir>/virapy.pyd on Windows and
\* <package dir>/virapy.so elsewhere.
C16_PlatformResolution ==
    [][/\ imported => imported'
       /\ dll_search' # dll_search =>
             (~imported /\ imported' /\ platform_system = "Windows")
       /\ imported' =>
             dll_search' = IF platform_system # "Windows" THEN "none"
                           ELSE IF has_add_dll THEN "add_dll_directory" ELSE "PATH"
       /\ \A t \in Threads :
            /\ pc'[t] # "idle" => imported
            /\ (pending'[t] # pending[t] /\ pc[t] \in {"l42", "l59"}
                /\ pending'[t].msg[1] \in {"Extension file not found: ",
                                           "Could not create spec for "}) =>
                  pending'[t].msg[2] = "<package dir>"
                  /\ pending'[t].msg[3] = IF platform_system = "Windows"
                                          THEN "virapy.pyd" ELSE "virapy.so"]_vars

\* on Windows without os.add_dll_directory, PATH was extended at import and a
\* later load attempt named virapy.pyd
C16_Witness ==
    \E t \in Threads :
        /\ platform_system = "Windows" /\ ~has_add_dll /\ dll_search = "PATH"
        /\ pc[t] = "l75" /\ IsNotFound(pending[t])
        /\ pending[t].msg = <<"Extension file not found: ", "<package dir>", "virapy.pyd">>

\* C17: in every reachable state an activated proxy's _submodule is the
\* attribute of that name of the module _extension_module now holds.
C17_SubmoduleOfCachedHandle ==
    \A n \in DOMAIN proxies :
        proxies[n].activated =>
            proxies[n].submodule = GetSubmodule(extension_module, n)

\* C18: whatever made _load_extension fail (missing file, no spec, native
\* failure, KeyError from sys.modules), what leaves it is an ImportError
\* carrying the l.75 message; a use ends in nothing but a forwarded value,
\* that ImportError or the arbiter's conflict.
C18_OnlyImportErrorEscapes ==
    \A t \in Threads :
        pc[t] = "done" =>
            /\ pending[t].type \in {"ImportError", "KeyError"} =>
                  /\ outcome[t].type = "ImportError"
                  /\ outcome[t].msg[1] = "Failed to import virapy extension: "
            /\ pending[t].type \in {"none", "return", "ImportError", "KeyError"}
            /\ pending[t].type \in {"none", "return"} =>
                  (outcome[t].type = "ok" \/ IsConflict(outcome[t]))

\* a KeyError from sys.modules has reached the caller as an ImportError
C18_Witness ==
    \E t \in Threads :
        /\ pc[t] = "done" /\ pending[t].type = "KeyError"
        /\ outcome[t].type = "ImportError"
        /\ outcome[t].msg = <<"Failed to import virapy extension: ">> \o pending[t].msg

\* C19: a use of proxy P, successful or failed, leaves the _activated and
\* _submodule fields of every other proxy as they were, and of the state the
\* proxies share it changes nothing but the cached handle and the arbiter's
\* current-active slot: the import bookkeeping, the DLL search path and the
\* file are untouched by every step of the use, and when the use is over with
\* no other use in flight, sys.modules is bound as it was at import.
C19_UseFrame ==
    [][\A t \in Threads :
          pc'[t] # pc[t] =>
              /\ \A n \in DOMAIN proxies \ {self[t], self'[t]} :
                    proxies'[n] = proxies[n]
              /\ \A n \in DOMAIN proxies : proxies'[n].name = proxies[n].name
              /\ UNCHANGED <<envVars, extFile, imported, dll_search>>
              /\ (pc'[t] = "done" /\ Quiet(t)) => IdentityRestored(sys_modules')
      ]_vars

====
